---- MODULE Spec2Model ----
(***************************************************************************)
(* The image relay (src/unnamed/part_000, the POST route handler) and the  *)
(* upload client (src/app/page.tsx, the Home component).                   *)
(*                                                                         *)
(* A JavaScript string is modelled as a record [text, pad]: the characters *)
(* of text followed by pad copies of the base64 character "A".  This keeps *)
(* the real length limits of the code (6,464,471 characters, 4.5 MiB)      *)
(* without materialising megabytes of payload; every string operation      *)
(* below is written character by character over that representation.      *)
(***************************************************************************)
EXTENDS Integers, Sequences, FiniteSets, TLC

VARIABLES
    reqs,        \* relay: request id -> state of one POST invocation
    uploads,     \* client: sequence of submit() invocations, in call order
    blobURL,     \* client: useState blobURL (0 is null, else the upload id)
    finished,    \* client: useState finished
    completion,  \* client: useCompletion().completion
    isLoading,   \* client: useCompletion().isLoading
    toasts       \* client: messages passed to toast.error, in order

vars == <<reqs, uploads, blobURL, finished, completion, isLoading, toasts>>

clientVars == <<uploads, blobURL, finished, completion, isLoading, toasts>>

(***************************************************************************)
(* Bounds of the model.                                                    *)
(***************************************************************************)
\* chunks one model call may produce
MaxChunks == 2

\* submit() invocations in one client run
MaxUploads == 2

(***************************************************************************)
(* Program constants.                                                      *)
(***************************************************************************)
\* part_000:21 and page.tsx:41, "roughly 4.5MB in base64"
MaxPromptLength == 6464471

\* page.tsx:34, 4.5 * 1024 * 1024
MaxFileSize == 4718592

OversizeMessage == "Image too large, maximum file size is 4.5MB."

InvalidMessage == "Invalid image data"

UnsupportedMessage == "Unsupported format. Only JPEG, PNG, GIF, and WEBP files are supported."

ClipboardUnsupportedMessage == "Your browser does not support reading from the clipboard."

ClipboardDeniedMessage == "Permission to read clipboard was denied."

\* the message of the Error useCompletion raises for a response without a body text
FetchFailedMessage == "Failed to fetch the chat response."

\* page.tsx:94 and part_000:60: the sentinel, U+25B2; the model writes it "^"
\* so as to keep every string within ASCII
Sentinel == "^"

(***************************************************************************)
(* Strings.                                                                *)
(***************************************************************************)
Str(t, n) == [text |-> t, pad |-> n]

StrLen(s) == Len(s.text) + s.pad

CharAt(s, i) == IF i <= Len(s.text) THEN SubSeq(s.text, i, i) ELSE "A"

\* s has the characters of lit at positions k, k+1, ...
HasAt(s, k, lit) ==
    \A i \in 1..Len(lit) :
        /\ k + i - 1 <= StrLen(s)
        /\ CharAt(s, k + i - 1) = SubSeq(lit, i, i)

Letters ==
    {"a","b","c","d","e","f","g","h","i","j","k","l","m",
     "n","o","p","q","r","s","t","u","v","w","x","y","z",
     "A","B","C","D","E","F","G","H","I","J","K","L","M",
     "N","O","P","Q","R","S","T","U","V","W","X","Y","Z"}

\* the character class [A-Za-z-+\/] of the pattern
MimeChars == Letters \cup {"-", "+", "/"}

\* the characters "." does not match (U+2028 and U+2029, which it does not
\* match either, are outside the strings of the model)
LineTerminators == {"\n", "\r"}

\* last position of the greedy run [A-Za-z-+\/]* that starts at position i
\* (i - 1 when the run is empty); the padding is made of "A", a class member
RECURSIVE MimeRunEnd(_, _)
MimeRunEnd(s, i) ==
    IF i > Len(s.text)
    THEN IF i <= StrLen(s) THEN StrLen(s) ELSE i - 1
    ELSE IF CharAt(s, i) \in MimeChars THEN MimeRunEnd(s, i + 1) ELSE i - 1

NoMatch == [matched |-> FALSE, mimeType |-> "", image |-> Str("", 0)]

\* the pattern with "." matching line terminators too (a dotAll flag)
DecodeBase64Image_DotAll(dataString) ==
    LET e == MimeRunEnd(dataString, 6)
        p == e + 9
    IN  IF /\ HasAt(dataString, 1, "data:")
           /\ e >= 6
           /\ HasAt(dataString, e + 1, ";base64,")
           /\ p <= StrLen(dataString)
        THEN [matched |-> TRUE,
              mimeType |-> SubSeq(dataString.text, 6, e),
              image |-> Str(SubSeq(dataString.text, p, Len(dataString.text)),
                            dataString.pad)]
        ELSE NoMatch

\* dataString.match(/^data:([A-Za-z-+\/]+);base64,(.+)$/) and the two captures.
\* ";" is outside the class, so the greedy run is the only candidate capture.
DecodeBase64Image(dataString) ==
    LET e == MimeRunEnd(dataString, 6)
        p == e + 9
    IN  IF /\ HasAt(dataString, 1, "data:")
           /\ e >= 6
           /\ HasAt(dataString, e + 1, ";base64,")
           /\ p <= StrLen(dataString)
           /\ \A i \in p..Len(dataString.text) :
                  CharAt(dataString, i) \notin LineTerminators
        THEN [matched |-> TRUE,
              mimeType |-> SubSeq(dataString.text, 6, e),
              image |-> Str(SubSeq(dataString.text, p, Len(dataString.text)),
                            dataString.pad)]
        ELSE NoMatch

\* isSupportedImageType of @/app/utils
IsSupportedImageType(type) ==
    type \in {"image/jpeg", "image/png", "image/gif", "image/webp"}

(***************************************************************************)
(* The relay: POST of src/unnamed/part_000.                                *)
(***************************************************************************)
Response(status, body) == [status |-> status, body |-> body]

\* status 0: no Response was returned by the validation, the handler goes on
Proceed == Response(0, "")

\* the handler without its length check
PostValidation_NoSizeCheck(prompt) ==
    LET d == DecodeBase64Image(prompt)
    IN  IF ~d.matched \/ d.mimeType = "" \/ StrLen(d.image) = 0
        THEN Response(400, InvalidMessage)
        ELSE IF ~IsSupportedImageType(d.mimeType)
             THEN Response(400, UnsupportedMessage)
             ELSE Proceed

\* the handler parsing the data-URI before it checks the length
PostValidation_ParseFirst(prompt) ==
    LET d == DecodeBase64Image(prompt)
    IN  IF ~d.matched \/ d.mimeType = "" \/ StrLen(d.image) = 0
        THEN Response(400, InvalidMessage)
        ELSE IF StrLen(prompt) > MaxPromptLength
             THEN Response(400, OversizeMessage)
             ELSE IF ~IsSupportedImageType(d.mimeType)
                  THEN Response(400, UnsupportedMessage)
                  ELSE Proceed

\* the handler without its allow-list check
PostValidation_NoTypeCheck(prompt) ==
    IF StrLen(prompt) > MaxPromptLength
    THEN Response(400, OversizeMessage)
    ELSE LET d == DecodeBase64Image(prompt)
         IN  IF ~d.matched \/ d.mimeType = "" \/ StrLen(d.image) = 0
             THEN Response(400, InvalidMessage)
             ELSE Proceed

\* part_000:21-37, the three checks in the order of the code
PostValidation(prompt) ==
    IF StrLen(prompt) > MaxPromptLength
    THEN Response(400, OversizeMessage)
    ELSE LET d == DecodeBase64Image(prompt)
         IN  IF ~d.matched \/ d.mimeType = "" \/ StrLen(d.image) = 0
             THEN Response(400, InvalidMessage)
             ELSE IF ~IsSupportedImageType(d.mimeType)
                  THEN Response(400, UnsupportedMessage)
                  ELSE Proceed

\* the chunks the hosted model may emit
Chunks == {"d", Sentinel \o "t"}

\* a request as it arrives: req.json() has yielded the prompt
NewRequest(prompt) ==
    [prompt |-> prompt, pc |-> "received", status |-> 0, body |-> "",
     modelCalls |-> 0,
     produced |-> <<>>, delivered |-> <<>>]

\* streamText calls a validated request makes on its way to the response
CallsIssued(req) == req.modelCalls + 1

\* part_000:17-39: validation, then either a 400 Response or the call of streamText
POST(r) ==
    /\ r \in DOMAIN reqs
    /\ reqs[r].pc = "received"
    /\ LET v == PostValidation(reqs[r].prompt)
       IN  reqs' = [reqs EXCEPT ![r] =
                IF v.status # 0
                THEN [@ EXCEPT !.pc = "closed", !.status = v.status, !.body = v.body]
                ELSE [@ EXCEPT !.pc = "calling", !.modelCalls = CallsIssued(reqs[r])]]
    /\ UNCHANGED clientVars

\* part_000:39-68: streamText resolves, the handler returns the streaming response
StreamTextResolves(r) ==
    /\ r \in DOMAIN reqs
    /\ reqs[r].pc = "calling"
    /\ reqs' = [reqs EXCEPT ![r] =
           [@ EXCEPT !.pc = "streaming", !.status = 200]]
    /\ UNCHANGED clientVars

\* part_000:39: streamText rejects; nothing catches it, the host answers 500
StreamTextRejects(r) ==
    /\ r \in DOMAIN reqs
    /\ reqs[r].pc = "calling"
    /\ reqs' = [reqs EXCEPT ![r] =
           [@ EXCEPT !.pc = "closed", !.status = 500, !.body = ""]]
    /\ UNCHANGED clientVars

\* the hosted model emits one more chunk into result
ModelEmits(r, c) ==
    /\ r \in DOMAIN reqs
    /\ reqs[r].pc = "streaming"
    /\ Len(reqs[r].produced) < MaxChunks
    /\ reqs' = [reqs EXCEPT ![r] = [@ EXCEPT !.produced = Append(@, c)]]
    /\ UNCHANGED clientVars

\* a pipe that passes on the newest chunk of result instead of the next one
Piped_Latest(req) == Append(req.delivered, req.produced[Len(req.produced)])

\* what the response body holds once the next chunk of result went through
Piped(req) == Append(req.delivered, req.produced[Len(req.delivered) + 1])

\* part_000:68: result.toAIStream() is the body of the response
Forward(r) ==
    /\ r \in DOMAIN reqs
    /\ reqs[r].pc = "streaming"
    /\ Len(reqs[r].delivered) < Len(reqs[r].produced)
    /\ reqs' = [reqs EXCEPT ![r] = [@ EXCEPT !.delivered = Piped(reqs[r])]]
    /\ UNCHANGED clientVars

\* part_000:68: the hosted model ends its stream and, its last chunk passed
\* on, the body of the response ends
ModelEnds(r) ==
    /\ r \in DOMAIN reqs
    /\ reqs[r].pc = "streaming"
    /\ Len(reqs[r].delivered) = Len(reqs[r].produced)
    /\ reqs' = [reqs EXCEPT ![r] = [@ EXCEPT !.pc = "closed"]]
    /\ UNCHANGED clientVars

\* part_000:68: the hosted model fails in mid-stream and the body of the
\* response is torn down with it
ModelFails(r) ==
    /\ r \in DOMAIN reqs
    /\ reqs[r].pc = "streaming"
    /\ reqs' = [reqs EXCEPT ![r] = [@ EXCEPT !.pc = "errored"]]
    /\ UNCHANGED clientVars

RelayStep ==
    \/ \E r \in DOMAIN reqs : POST(r)
    \/ \E r \in DOMAIN reqs : StreamTextResolves(r)
    \/ \E r \in DOMAIN reqs : StreamTextRejects(r)
    \/ \E r \in DOMAIN reqs : \E c \in Chunks : ModelEmits(r, c)
    \/ \E r \in DOMAIN reqs : Forward(r)
    \/ \E r \in DOMAIN reqs : ModelEnds(r)
    \/ \E r \in DOMAIN reqs : ModelFails(r)

(***************************************************************************)
(* The relay under arbitrary callers: one request with any prompt.         *)
(***************************************************************************)
PromptTexts ==
    {"", "not-a-data-uri", "data:", "data:image/png", "data:;base64,",
     "data:image/png;base64,", "data:image/jpeg;base64,",
     "data:image/gif;base64,", "data:image/webp;base64,",
     "data:image/bmp;base64,", "data:image/svg+xml;base64,",
     "data:video/mp4;base64,", "data:image/png;base32,",
     "Data:image/png;base64,", " data:image/png;base64,",
     "data:image/png;base64,A\nA", "data:image/bmp;base64,\n"}

\* payload paddings: none, a few characters, up to the limit, one past it, far past it
PromptPads(t) ==
    {0, 4, MaxPromptLength - Len(t), MaxPromptLength - Len(t) + 1,
     7000000 - Len(t)}

Prompts == {Str(t, n) : t \in PromptTexts, n \in PromptPads("")} \cup
           UNION {{Str(t, n) : n \in PromptPads(t)} : t \in PromptTexts}

\* a caller other than the client posts a prompt; its request has the id 0,
\* the requests of the client have the number of their upload
ExternalRequest(prompt) ==
    /\ 0 \notin DOMAIN reqs
    /\ reqs' = (0 :> NewRequest(prompt)) @@ reqs
    /\ UNCHANGED clientVars

Init ==
    /\ reqs = <<>>
    /\ uploads = <<>>
    /\ blobURL = 0
    /\ finished = FALSE
    /\ completion = ""
    /\ isLoading = FALSE
    /\ toasts = <<>>

NextRelay ==
    \/ \E prompt \in Prompts : ExternalRequest(prompt)
    \/ RelayStep

SpecRelay == Init /\ [][NextRelay]_vars

(***************************************************************************)
(* The client: Home of src/app/page.tsx.                                   *)
(***************************************************************************)
File(type, size) == [type |-> type, size |-> size]

\* the files a user may hand over: an empty one, one of exactly 4.5 MiB, one a
\* byte larger, and one of a type outside the allow-list
Files ==
    {File("image/png", 0), File("image/jpeg", MaxFileSize),
     File("image/png", MaxFileSize + 1), File("image/bmp", 3)}

\* files?.[0] of an input, a drop or a paste: at most one file is looked at
FileLists == {<<>>} \cup {<<f>> : f \in Files}

ClipboardItem(types, size) == [types |-> types, size |-> size]

Clipboard(api, denied, items) == [api |-> api, denied |-> denied, items |-> items]

\* what navigator.clipboard may hold when the long press fires
Clipboards ==
    {Clipboard(FALSE, FALSE, <<>>), Clipboard(TRUE, TRUE, <<>>),
     Clipboard(TRUE, FALSE, <<>>),
     Clipboard(TRUE, FALSE, <<ClipboardItem(<<"text/plain">>, 3)>>),
     Clipboard(TRUE, FALSE, <<ClipboardItem(<<"text/html", "image/png">>, 3)>>),
     Clipboard(TRUE, FALSE, <<ClipboardItem(<<"image/png">>, MaxFileSize + 1)>>)}

\* an encoder that yields the bare base64 text, without the data-URI head
ToBase64_Bare(file) == Str("", 4 * ((file.size + 2) \div 3))

\* page.tsx:214-224: FileReader.readAsDataURL, "data:" type ";base64," and four
\* characters for every three bytes of the file, the last group padded
ToBase64(file) ==
    Str("data:" \o (IF file.type = "" THEN "application/octet-stream" ELSE file.type)
            \o ";base64,",
        4 * ((file.size + 2) \div 3))

\* submit without its check of file.size
SubmitVerdict_NoSizeCheck(file) ==
    IF ~IsSupportedImageType(file.type) THEN UnsupportedMessage ELSE ""

\* page.tsx:28-36: the toast submit returns with before it encodes, "" for none
SubmitVerdict(file) ==
    IF ~IsSupportedImageType(file.type) THEN UnsupportedMessage
    ELSE IF file.size > MaxFileSize THEN OversizeMessage
    ELSE ""

\* page.tsx:41-43: the toast submit returns with after it encoded, "" for none
EncodedVerdict(base64) ==
    IF StrLen(base64) > MaxPromptLength THEN OversizeMessage ELSE ""

Upload(files, pc) == [file |-> files, pc |-> pc, result |-> "", nread |-> 0]

\* page.tsx:25-38: submit(file) up to its await of toBase64
Submit(files) ==
    IF Len(files) = 0
    THEN UNCHANGED clientVars
    ELSE LET v == SubmitVerdict(files[1])
         IN  /\ uploads' = Append(uploads,
                     Upload(files, IF v = "" THEN "encoding" ELSE "rejected"))
             /\ toasts' = IF v = "" THEN toasts ELSE Append(toasts, v)
             /\ UNCHANGED <<blobURL, finished, completion, isLoading>>

\* page.tsx:89-92
HandleInputChange(files) ==
    /\ Len(uploads) < MaxUploads
    /\ Submit(files)
    /\ UNCHANGED reqs

\* page.tsx:61-68
HandleDrop(files) ==
    /\ Len(uploads) < MaxUploads
    /\ Submit(files)
    /\ UNCHANGED reqs

\* page.tsx:84-87
HandlePaste(files) ==
    /\ Len(uploads) < MaxUploads
    /\ Submit(files)
    /\ UNCHANGED reqs

\* item.types.find(isSupportedImageType): the first supported type, <<>> for undefined
FindSupported(types) ==
    LET hits == {i \in 1..Len(types) : IsSupportedImageType(types[i])}
    IN  IF hits = {} THEN <<>>
        ELSE <<types[CHOOSE i \in hits : \A j \in hits : i <= j]>>

\* an input that ends in a toast before submit is reached
Refused(message) ==
    /\ uploads' = Append(uploads, Upload(<<>>, "rejected"))
    /\ toasts' = Append(toasts, message)
    /\ UNCHANGED <<blobURL, finished, completion, isLoading>>

\* page.tsx:101-123: the long press reads the clipboard and submits its image
LongPress(clip) ==
    /\ Len(uploads) < MaxUploads
    /\ IF ~clip.api
       THEN Refused(ClipboardUnsupportedMessage)
       ELSE IF clip.denied \/ Len(clip.items) = 0
            THEN Refused(ClipboardDeniedMessage)
            ELSE LET item == clip.items[1]
                     supportedType == FindSupported(item.types)
                 IN  IF supportedType = <<>>
                     THEN Refused(UnsupportedMessage)
                     ELSE Submit(<<File(supportedType[1], item.size)>>)
    /\ UNCHANGED reqs

\* page.tsx:38-47: toBase64 resolved; the length check, then setBlobURL,
\* setFinished(false) and complete(base64), which sets isLoading, empties
\* completion and sends the request
EncodeDone(u) ==
    /\ u \in 1..Len(uploads)
    /\ uploads[u].pc = "encoding"
    /\ LET base64 == ToBase64(uploads[u].file[1])
           v == EncodedVerdict(base64)
       IN  IF v # ""
           THEN /\ uploads' = [uploads EXCEPT ![u].pc = "rejected"]
                /\ toasts' = Append(toasts, v)
                /\ UNCHANGED <<reqs, blobURL, finished, completion, isLoading>>
           ELSE /\ uploads' = [uploads EXCEPT ![u].pc = "fetching"]
                /\ blobURL' = u
                /\ finished' = FALSE
                /\ isLoading' = TRUE
                /\ completion' = ""
                /\ reqs' = (u :> NewRequest(base64)) @@ reqs
                /\ UNCHANGED toasts

\* page.tsx:222: the reader fails, toBase64 rejects and submit ends there
EncodeFails(u) ==
    /\ u \in 1..Len(uploads)
    /\ uploads[u].pc = "encoding"
    /\ uploads' = [uploads EXCEPT ![u].pc = "readerror"]
    /\ UNCHANGED <<reqs, blobURL, finished, completion, isLoading, toasts>>

\* page.tsx:18-21: onError, then useCompletion's setLoading(false)
OnError(u, message) ==
    /\ toasts' = Append(toasts, message)
    /\ blobURL' = 0
    /\ isLoading' = FALSE
    /\ uploads' = [uploads EXCEPT ![u].pc = "failed"]
    /\ UNCHANGED <<finished, completion>>

\* page.tsx:17: useCompletion gets the response head; a status outside 2xx is
\* thrown as an Error carrying the body text
FetchResolves(u) ==
    /\ u \in 1..Len(uploads)
    /\ uploads[u].pc = "fetching"
    /\ reqs[u].status # 0
    /\ IF reqs[u].status # 200
       THEN OnError(u, IF reqs[u].body = "" THEN FetchFailedMessage ELSE reqs[u].body)
       ELSE /\ uploads' = [uploads EXCEPT ![u].pc = "reading"]
            /\ UNCHANGED <<blobURL, finished, completion, isLoading, toasts>>
    /\ UNCHANGED reqs

\* page.tsx:17: useCompletion reads one chunk: result += chunk; setCompletion(result)
ReadChunk(u) ==
    /\ u \in 1..Len(uploads)
    /\ uploads[u].pc = "reading"
    /\ uploads[u].nread < Len(reqs[u].delivered)
    /\ LET result == uploads[u].result \o reqs[u].delivered[uploads[u].nread + 1]
       IN  /\ uploads' = [uploads EXCEPT ![u].result = result,
                                         ![u].nread = @ + 1]
           /\ completion' = result
    /\ UNCHANGED <<reqs, blobURL, finished, isLoading, toasts>>

\* page.tsx:22: the body ended; onFinish, then useCompletion's setLoading(false)
StreamEnds(u) ==
    /\ u \in 1..Len(uploads)
    /\ uploads[u].pc = "reading"
    /\ reqs[u].pc = "closed"
    /\ uploads[u].nread = Len(reqs[u].delivered)
    /\ finished' = TRUE
    /\ isLoading' = FALSE
    /\ uploads' = [uploads EXCEPT ![u].pc = "finished"]
    /\ UNCHANGED <<reqs, blobURL, completion, toasts>>

StreamErrorMessage == "network error"

\* page.tsx:18-21: the body was torn down; the read throws and onError runs
StreamErrors(u) ==
    /\ u \in 1..Len(uploads)
    /\ uploads[u].pc = "reading"
    /\ reqs[u].pc = "errored"
    /\ OnError(u, StreamErrorMessage)
    /\ UNCHANGED reqs

\* String.prototype.split(sep) from position i on, cur the segment being read
RECURSIVE SplitFrom(_, _, _, _)
SplitFrom(s, sep, i, cur) ==
    IF i > Len(s) THEN <<cur>>
    ELSE IF i + Len(sep) - 1 <= Len(s) /\ SubSeq(s, i, i + Len(sep) - 1) = sep
         THEN <<cur>> \o SplitFrom(s, sep, i + Len(sep), "")
         ELSE SplitFrom(s, sep, i + 1, cur \o SubSeq(s, i, i))

Split(s, sep) == SplitFrom(s, sep, 1, "")

\* page.tsx:94: const [description, text] = completion.split(sentinel)
Description == Split(completion, Sentinel)[1]

\* text taken from the last segment instead of the second
Text_Last ==
    LET parts == Split(completion, Sentinel)
    IN  parts[Len(parts)]

\* page.tsx:94: text is undefined when there is no second segment; every use of
\* it (join, && and the Section's content) treats undefined as the empty string
Text ==
    LET parts == Split(completion, Sentinel)
    IN  IF Len(parts) >= 2 THEN parts[2] ELSE ""

\* page.tsx:187: the result panel is rendered
PanelShown == isLoading \/ completion # ""

\* page.tsx:195: the Copy Both button is rendered
CopyBothEnabled == PanelShown /\ finished /\ Text # ""

Next ==
    \/ \E files \in FileLists : HandleInputChange(files)
    \/ \E files \in FileLists : HandleDrop(files)
    \/ \E files \in FileLists : HandlePaste(files)
    \/ \E clip \in Clipboards : LongPress(clip)
    \/ \E u \in 1..Len(uploads) : EncodeDone(u)
    \/ \E u \in 1..Len(uploads) : EncodeFails(u)
    \/ \E u \in 1..Len(uploads) : FetchResolves(u)
    \/ \E u \in 1..Len(uploads) : ReadChunk(u)
    \/ \E u \in 1..Len(uploads) : StreamEnds(u)
    \/ \E u \in 1..Len(uploads) : StreamErrors(u)
    \/ RelayStep

Spec == Init /\ [][Next]_vars

(***************************************************************************)
(* Properties of the relay, checked under SpecRelay.                       *)
(***************************************************************************)
\* s reads data:<mime>;base64,<payload> with <mime> the positions 6..e, made of
\* letters, "-", "+" and "/", and <payload> non-empty and free of line terminators
FormAt(s, e) ==
    /\ HasAt(s, 1, "data:")
    /\ \A i \in 6..e : CharAt(s, i) \in MimeChars
    /\ HasAt(s, e + 1, ";base64,")
    /\ StrLen(s) >= e + 9
    /\ \A i \in (e + 9)..Len(s.text) : CharAt(s, i) \notin LineTerminators

DataUriForm(s) == \E e \in 6..Len(s.text) : FormAt(s, e)

\* s reads data:<mime>;base64,<payload> with <mime> the positions 6..e, any
\* characters but ";", and <payload> any non-empty text
LooseFormAt(s, e) ==
    /\ HasAt(s, 1, "data:")
    /\ \A i \in 6..e : CharAt(s, i) # ";"
    /\ HasAt(s, e + 1, ";base64,")
    /\ StrLen(s) >= e + 9

Answered(r) == reqs[r].pc # "received"

Rejected(r, message) ==
    /\ reqs[r].status = 400
    /\ reqs[r].body = message
    /\ reqs[r].pc = "closed"

NoModelCall(r) == reqs[r].modelCalls = 0 /\ reqs[r].produced = <<>>

\* C1: a prompt longer than 6,464,471 characters is answered 400 "Image too
\* large, maximum file size is 4.5MB." and streamText is never called for it.
C1_OversizeRejected ==
    \A r \in DOMAIN reqs :
        StrLen(reqs[r].prompt) > MaxPromptLength =>
            /\ NoModelCall(r)
            /\ Answered(r) => Rejected(r, OversizeMessage)

\* C1 witness: a well-formed PNG data-URI one character over the limit was rejected.
C1_Witness ==
    \E r \in DOMAIN reqs :
        /\ StrLen(reqs[r].prompt) = MaxPromptLength + 1
        /\ DataUriForm(reqs[r].prompt)
        /\ HasAt(reqs[r].prompt, 1, "data:image/png;")
        /\ Rejected(r, OversizeMessage)

\* C2 as stated: every prompt that does not read data:<mime>;base64,<payload>
\* is answered 400 "Invalid image data".
C2_MalformedAlwaysInvalid ==
    \A r \in DOMAIN reqs :
        (Answered(r) /\ ~DataUriForm(reqs[r].prompt)) => Rejected(r, InvalidMessage)

\* C2 as amended: every prompt of at most 6,464,471 characters that does not
\* read data:<mime>;base64,<payload> is answered 400 "Invalid image data", and
\* no model call is made for it.
C2_MalformedWithinLimitInvalid ==
    \A r \in DOMAIN reqs :
        (StrLen(reqs[r].prompt) <= MaxPromptLength /\ ~DataUriForm(reqs[r].prompt)) =>
            /\ NoModelCall(r)
            /\ Answered(r) => Rejected(r, InvalidMessage)

\* C2 witness: "not-a-data-uri" was answered with the invalid-data error.
C2_Witness ==
    \E r \in DOMAIN reqs :
        /\ reqs[r].prompt = Str("not-a-data-uri", 0)
        /\ Rejected(r, InvalidMessage)

\* C3 as stated: every data-URI with a non-empty payload whose MIME type is
\* outside the allow-list is answered 400 "Unsupported format. ...".
C3_UnsupportedAlwaysRejected ==
    \A r \in DOMAIN reqs :
        \A e \in 6..Len(reqs[r].prompt.text) :
            (/\ Answered(r)
             /\ LooseFormAt(reqs[r].prompt, e)
             /\ ~IsSupportedImageType(SubSeq(reqs[r].prompt.text, 6, e)))
                => Rejected(r, UnsupportedMessage)

\* C3 as amended: every prompt of at most 6,464,471 characters that reads
\* data:<mime>;base64,<payload>, with <mime> made of letters, "-", "+" and "/"
\* and <payload> non-empty and free of line terminators, and whose MIME type
\* is outside the allow-list, is answered 400 "Unsupported format. ...", and
\* no model call is made for it.
C3_UnsupportedWithinLimitRejected ==
    \A r \in DOMAIN reqs :
        \A e \in 6..Len(reqs[r].prompt.text) :
            (/\ StrLen(reqs[r].prompt) <= MaxPromptLength
             /\ FormAt(reqs[r].prompt, e)
             /\ ~IsSupportedImageType(SubSeq(reqs[r].prompt.text, 6, e)))
                => /\ NoModelCall(r)
                   /\ Answered(r) => Rejected(r, UnsupportedMessage)

\* C3 witness: data:image/bmp;base64,AAAA was answered with the unsupported-format error.
C3_Witness ==
    \E r \in DOMAIN reqs :
        /\ reqs[r].prompt = Str("data:image/bmp;base64,", 4)
        /\ Rejected(r, UnsupportedMessage)

\* the error of the first validation step a prompt fails, "" when it passes all
FirstFailure(s) ==
    IF StrLen(s) > MaxPromptLength THEN OversizeMessage
    ELSE IF ~DataUriForm(s) THEN InvalidMessage
    ELSE IF \E e \in 6..Len(s.text) :
                FormAt(s, e) /\ ~IsSupportedImageType(SubSeq(s.text, 6, e))
         THEN UnsupportedMessage
         ELSE ""

IsPrefix(a, b) == Len(a) <= Len(b) /\ a = SubSeq(b, 1, Len(a))

C5_FirstFailureDecides ==
    \A r \in DOMAIN reqs :
        LET f == FirstFailure(reqs[r].prompt)
        IN  /\ f # "" => NoModelCall(r)
            /\ Answered(r) =>
                   IF f # "" THEN Rejected(r, f) ELSE reqs[r].status # 400

\* C5 witness: a prompt both oversized and malformed got the oversize error,
\* not the invalid-data one.
C5_Witness ==
    \E r \in DOMAIN reqs :
        /\ StrLen(reqs[r].prompt) > MaxPromptLength
        /\ ~DataUriForm(reqs[r].prompt)
        /\ Rejected(r, OversizeMessage)

(***************************************************************************)
(* Properties of the client and of client and relay together, checked      *)
(* under Spec.                                                             *)
(***************************************************************************)
\* the file of input u, or none when the input never reached submit
HasFile(ups, u) == ups[u].file # <<>>

\* the three checks of the claim, stated on the file itself: its type, its
\* size in bytes, and the length of "data:<type>;base64," plus its base64 text
Acceptable(file) ==
    /\ file.type \in {"image/jpeg", "image/png", "image/gif", "image/webp"}
    /\ file.size <= 4718592
    /\ Len("data:") + Len(file.type) + Len(";base64,")
           + 4 * ((file.size + 2) \div 3) <= 6464471

RequestsOnlyForAcceptable ==
    /\ DOMAIN reqs \subseteq 1..Len(uploads)
    /\ \A u \in DOMAIN reqs : HasFile(uploads, u) /\ Acceptable(uploads[u].file[1])

\* a step that handles an input whose file fails a check, or a long press
\* that finds no image to submit
UnacceptableHandled(u) ==
    /\ HasFile(uploads', u) => ~Acceptable(uploads'[u].file[1])
    /\ (u > Len(uploads) \/ uploads'[u] # uploads[u])

\* C6: whatever the channel, a request is started only for a file that passes
\* the type, raw-size and encoded-length checks, and the handling of a file
\* that fails one starts no request and leaves the displayed image and the
\* finished flag as they were.
C6_ValidatedBeforeRequest ==
    /\ []RequestsOnlyForAcceptable
    /\ [][\A u \in 1..Len(uploads') :
              UnacceptableHandled(u) => UNCHANGED <<reqs, blobURL, finished>>]_vars

\* C6 witness: with the result of an accepted upload on display, a file one
\* byte over 4.5 MiB was refused, and the display still shows the earlier upload.
C6_Witness ==
    \E u, v \in 1..Len(uploads) :
        /\ u < v
        /\ u \in DOMAIN reqs
        /\ blobURL = u
        /\ finished
        /\ HasFile(uploads, v)
        /\ uploads[v].file[1].size > MaxFileSize
        /\ uploads[v].pc = "rejected"

InFlight(u) == uploads[u].pc \in {"fetching", "reading"}

\* C7: Copy Both is rendered only when no started request is still streaming.
C7_CopyBothOnlyWhenComplete ==
    CopyBothEnabled => \A u \in 1..Len(uploads) : ~InFlight(u)

\* C8: when onError runs for a request, a notification is shown and nothing of
\* the failed or an earlier request stays on display: no description, no
\* text, no finished flag, no image preview.
C8_ErrorClearsDisplay ==
    [][\A u \in 1..Len(uploads) :
           (uploads[u].pc # "failed" /\ uploads'[u].pc = "failed") =>
               /\ Len(toasts') = Len(toasts) + 1
               /\ blobURL' = 0
               /\ ~finished'
               /\ Description' = ""
               /\ Text' = ""]_vars

\* the number of sentinels in s
RECURSIVE Sentinels(_, _)
Sentinels(s, i) ==
    IF i > Len(s) THEN 0
    ELSE (IF SubSeq(s, i, i) = Sentinel THEN 1 ELSE 0) + Sentinels(s, i + 1)

\* C9 as stated: without a sentinel the description is the whole response and
\* the text is empty; with one or more, the description is what precedes the
\* first sentinel and the text is all that follows it.
C9_SplitKeepsEverything ==
    IF Sentinels(completion, 1) = 0
    THEN Description = completion /\ Text = ""
    ELSE Description \o Sentinel \o Text = completion

\* C9 as amended: without a sentinel the description is the whole response and
\* the text is empty; with exactly one, description, sentinel and text make up
\* the response; with more than one, the description is what precedes the
\* first sentinel and the text is only what lies between the first and the
\* second sentinel: what follows the second sentinel is in neither section.
C9_SplitKeepsFirstTwo ==
    LET n == Sentinels(completion, 1)
        shown == Description \o Sentinel \o Text
    IN  /\ Sentinels(Description, 1) = 0
        /\ Sentinels(Text, 1) = 0
        /\ n = 0 => Description = completion /\ Text = ""
        /\ n = 1 => shown = completion
        /\ n > 1 => /\ Len(shown) < Len(completion)
                    /\ SubSeq(completion, 1, Len(shown) + 1) = shown \o Sentinel

\* C9 witness: a response with two sentinels is on display.
C9_Witness == Sentinels(completion, 1) >= 2 /\ Text # ""

\* C10 as stated: the relay never answers 400 to a request of the client.
C10_RelayNeverRefusesClient ==
    \A u \in DOMAIN reqs : reqs[u].status # 400

\* C10 as amended: for a file that is not empty, the payload the client sends
\* passes the three validation steps of the relay: the relay does not answer
\* 400 and makes its model call.
C10_RelayAcceptsNonEmptyFiles ==
    \A u \in DOMAIN reqs :
        (HasFile(uploads, u) /\ uploads[u].file[1].size > 0) =>
            /\ reqs[u].status # 400
            /\ reqs[u].pc # "received" => reqs[u].modelCalls = 1

\* C10 witness: the relay streams its answer for a file of exactly 4.5 MiB.
C10_Witness ==
    \E u \in DOMAIN reqs :
        /\ HasFile(uploads, u)
        /\ uploads[u].file[1].size = MaxFileSize
        /\ reqs[u].status = 200

====
